---- MODULE Spec2Model ----
(***************************************************************************)
(* Model of pdf2ja: the Markdown chunker (heading split + merge pass of    *)
(* small chunks), the per-chunk transform driver (fix_text /               *)
(* translate_text) and the two command-line entry points.                  *)
(*                                                                         *)
(* A Python str is modelled as a sequence of one-character strings.        *)
(***************************************************************************)
EXTENDS Integers, Sequences, FiniteSets, TLC

VARIABLES
    \* ---- MarkdownChunker ----
    markdown_text,      \* argument of split_markdown
    segments,           \* the list re.split returns, before trimming
    max_chunk_size,     \* self.max_chunk_size
    min_chunk_size,     \* self.min_chunk_size
    small_chunks,       \* argument of _merge_small_chunks
    chunks,             \* the deque of _merge_small_chunks
    merged_chunks,      \* the output list of _merge_small_chunks
    result,             \* the value returned by the chunker
    iterations,         \* completed iterations of the while loop
    pc,                 \* position in the chunker
    \* ---- entry point / driver ----
    entry,              \* which script runs: fix_markdown or translate_markdown
    api_key,            \* args.api_key
    env_key,            \* os.environ.get("OPENAI_API_KEY")
    path,               \* args.path
    delay,              \* args.delay
    doc,                \* content of the input (file or standard input)
    src_text,           \* text handed to fix_text / translate_text
    run_chunks,         \* chunks of the run (result of split_markdown)
    outcomes,           \* what the external call did for each chunk so far
    out_chunks,         \* fixed_chunks / out_chunks
    events,             \* observable steps of the run, in order
    error,              \* the exception that ended the run, or "none"
    output,             \* the assembled document
    rpc                 \* position in the entry point

chunker_vars == <<markdown_text, segments, max_chunk_size, min_chunk_size,
                  small_chunks, chunks, merged_chunks, result, iterations, pc>>
run_vars == <<entry, api_key, env_key, path, delay, doc, src_text, run_chunks,
              outcomes, out_chunks, events, error, output, rpc>>
vars == <<markdown_text, segments, max_chunk_size, min_chunk_size,
          small_chunks, chunks, merged_chunks, result, iterations, pc,
          entry, api_key, env_key, path, delay, doc, src_text, run_chunks,
          outcomes, out_chunks, events, error, output, rpc>>

----------------------------------------------------------------------------
\* Bounds of the model

\* longest input text of the chunker specification
MaxLen == 6
\* largest max_chunk_size of the chunker specification
MaxMax == 5
\* largest min_chunk_size of the chunker and merge specifications
MaxMin == 4
\* most chunks handed directly to the merge pass
MaxChunks == 3
\* longest chunk handed directly to the merge pass
MaxChunkLen == 3
\* most lines of an input document of a run
MaxLines == 3
\* longest input text of the heading-split specification
MaxSplitLen == 8

----------------------------------------------------------------------------
\* Characters and strings

NL == "\n"
SP == " "
HASH == "#"
Alphabet == {HASH, SP, NL, "a"}

\* str.strip() with no argument removes whitespace
IsSpace(c) == c \in {SP, NL}

Texts(n) == UNION {[1..k -> Alphabet] : k \in 0..n}

\* the separator "\n\n"
SEP == <<NL, NL>>

\* the number of '#' the heading pattern accepts: #{1,6}
MaxHashes == 6

RECURSIVE lstrip(_)
lstrip(s) ==
    IF s = <<>> THEN <<>>
    ELSE IF IsSpace(Head(s)) THEN lstrip(Tail(s)) ELSE s

RECURSIVE rstrip(_)
rstrip(s) ==
    IF s = <<>> THEN <<>>
    ELSE IF IsSpace(s[Len(s)]) THEN rstrip(SubSeq(s, 1, Len(s) - 1)) ELSE s

\* chunk.strip()
strip(s) == rstrip(lstrip(s))

\* sep.join(parts)
RECURSIVE join(_, _)
join(sep, parts) ==
    IF parts = <<>> THEN <<>>
    ELSE IF Len(parts) = 1 THEN parts[1]
    ELSE parts[1] \o sep \o join(sep, Tail(parts))

\* "".join(parts)
RECURSIVE concat(_)
concat(parts) ==
    IF parts = <<>> THEN <<>> ELSE Head(parts) \o concat(Tail(parts))

----------------------------------------------------------------------------
\* re.split(r"(?=^#{1,6} .*)", markdown_text, flags=re.MULTILINE)

\* variant: re.MULTILINE left out, ^ matches at the start of the text only
LineStart_no_multiline(s, i) == i = 1

\* ^ with re.MULTILINE: the start of the text or just after a newline
LineStart(s, i) == i = 1 \/ s[i - 1] = NL

\* the lookahead ^#{1,6} .* matches at position i (1-based)
HeadingAt(s, i) ==
    /\ LineStart(s, i)
    /\ \E k \in 1..MaxHashes :
          /\ i + k <= Len(s)
          /\ \A j \in i..(i + k - 1) : s[j] = HASH
          /\ s[i + k] = SP

Boundaries(s) == {i \in 1..Len(s) : HeadingAt(s, i)}

\* the pieces of s cut at the positions of cuts, scanning from position from;
\* an empty match at the first position yields a leading empty piece
RECURSIVE pieces(_, _, _)
pieces(s, from, cuts) ==
    IF cuts = {} THEN <<SubSeq(s, from, Len(s))>>
    ELSE LET c == CHOOSE x \in cuts : \A y \in cuts : x <= y
         IN  <<SubSeq(s, from, c - 1)>> \o pieces(s, c, cuts \ {c})

re_split(s) == pieces(s, 1, Boundaries(s))

\* [chunk.strip() for chunk in chunks if chunk.strip()]
RECURSIVE strip_filter(_)
strip_filter(parts) ==
    IF parts = <<>> THEN <<>>
    ELSE IF strip(Head(parts)) # <<>>
         THEN <<strip(Head(parts))>> \o strip_filter(Tail(parts))
         ELSE strip_filter(Tail(parts))

\* variant: the boundary length is sent to the heading split
short_circuit_strict(text, max) == Len(text) < max

\* if len(markdown_text) <= self.max_chunk_size: return [markdown_text]
short_circuit(text, max) == Len(text) <= max

----------------------------------------------------------------------------
\* _merge_small_chunks, one branch of the loop body each

\* variant: a chunk of exactly min_chunk_size characters is finalized
oversized_or_equal(chunk, min) == Len(chunk) >= min

\* if len(chunk) > self.min_chunk_size
oversized(chunk, min) == Len(chunk) > min

\* merged_chunks.append(chunk)
finalize(merged, chunk) == Append(merged, chunk)

\* variant: the fold is pushed onto the queue in front of its successor
fold_forward_appendleft(chunk, rest) == <<chunk \o SEP \o Head(rest)>> \o rest

\* variant: the popped chunk is dropped instead of folded
fold_forward_drop(chunk, rest) == <<SEP \o Head(rest)>> \o Tail(rest)

\* chunks[0] = chunk + "\n\n" + chunks[0]   (chunk already popped)
fold_forward(chunk, rest) == <<chunk \o SEP \o Head(rest)>> \o Tail(rest)

\* variant: the tail replaces the last finalized chunk (= instead of +=)
tail_append_overwrite(merged, chunk) ==
    [merged EXCEPT ![Len(merged)] = chunk]

\* variant: the tail becomes a finalized chunk of its own
tail_append_as_new(merged, chunk) == Append(merged, chunk)

\* variant: the tail is appended with a single newline
tail_append_one_newline(merged, chunk) ==
    [merged EXCEPT ![Len(merged)] = merged[Len(merged)] \o <<NL>> \o chunk]

\* merged_chunks[-1] += "\n\n" + chunk
tail_append(merged, chunk) ==
    [merged EXCEPT ![Len(merged)] = merged[Len(merged)] \o SEP \o chunk]

\* the whole loop, from a queue q and an output list m
RECURSIVE merge_loop(_, _, _)
merge_loop(q, m, min) ==
    IF q = <<>> THEN [raised |-> FALSE, chunks |-> m]
    ELSE LET chunk == Head(q)
             rest == Tail(q)
         IN  IF oversized(chunk, min)
             THEN merge_loop(rest, finalize(m, chunk), min)
             ELSE IF rest # <<>>
             THEN merge_loop(fold_forward(chunk, rest), m, min)
             ELSE IF m = <<>>
             THEN [raised |-> TRUE, chunks |-> <<>>]   \* IndexError
             ELSE merge_loop(rest, tail_append(m, chunk), min)

merge_small_chunks(small, min) ==
    IF Len(small) <= 1 THEN [raised |-> FALSE, chunks |-> small]
    ELSE merge_loop(small, <<>>, min)

split_markdown(text, max, min) ==
    IF short_circuit(text, max) THEN [raised |-> FALSE, chunks |-> <<text>>]
    ELSE merge_small_chunks(strip_filter(re_split(text)), min)

----------------------------------------------------------------------------
\* The chunker, step by step

\* the entry point and the driver are idle while the chunker is examined
RunIdle ==
    /\ entry = "none"
    /\ api_key = "None"
    /\ env_key = "None"
    /\ path = "-"
    /\ delay = 0
    /\ doc = <<>>
    /\ src_text = <<>>
    /\ run_chunks = <<>>
    /\ outcomes = <<>>
    /\ out_chunks = <<>>
    /\ events = <<>>
    /\ error = "none"
    /\ output = <<>>
    /\ rpc = "idle"

\* MarkdownChunker(max_chunk_size, min_chunk_size).split_markdown(text) called
Init ==
    /\ markdown_text \in Texts(MaxLen)
    /\ max_chunk_size \in 1..MaxMax
    /\ min_chunk_size \in 0..MaxMin
    /\ segments = <<>>
    /\ small_chunks = <<>>
    /\ chunks = <<>>
    /\ merged_chunks = <<>>
    /\ result = <<>>
    /\ iterations = 0
    /\ pc = "split_markdown"
    /\ RunIdle

\* split_markdown: the text fits in one chunk
ShortCircuit ==
    /\ pc = "split_markdown"
    /\ short_circuit(markdown_text, max_chunk_size)
    /\ result' = <<markdown_text>>
    /\ pc' = "done"
    /\ UNCHANGED <<markdown_text, segments, max_chunk_size, min_chunk_size,
                   small_chunks,
                   chunks, merged_chunks, iterations>>
    /\ UNCHANGED run_vars

\* split_markdown: split at the headings, trim, drop the empty segments and
\* hand the list to _merge_small_chunks
HeadingSplit ==
    /\ pc = "split_markdown"
    /\ ~short_circuit(markdown_text, max_chunk_size)
    /\ segments' = re_split(markdown_text)
    /\ small_chunks' = strip_filter(segments')
    /\ pc' = "merge_small_chunks"
    /\ UNCHANGED <<markdown_text, max_chunk_size, min_chunk_size,
                   chunks, merged_chunks, result, iterations>>
    /\ UNCHANGED run_vars

\* _merge_small_chunks: zero or one chunk is returned as it is
MergeTrivial ==
    /\ pc = "merge_small_chunks"
    /\ Len(small_chunks) <= 1
    /\ result' = small_chunks
    /\ pc' = "done"
    /\ UNCHANGED <<markdown_text, segments, max_chunk_size, min_chunk_size,
                   small_chunks,
                   chunks, merged_chunks, iterations>>
    /\ UNCHANGED run_vars

\* _merge_small_chunks: chunks = deque(small_chunks); merged_chunks = []
MergeStart ==
    /\ pc = "merge_small_chunks"
    /\ Len(small_chunks) > 1
    /\ chunks' = small_chunks
    /\ merged_chunks' = <<>>
    /\ iterations' = 0
    /\ pc' = "while"
    /\ UNCHANGED <<markdown_text, segments, max_chunk_size, min_chunk_size,
                   small_chunks,
                   result>>
    /\ UNCHANGED run_vars

\* loop body: the popped chunk is long enough and is finalized
Finalize ==
    /\ pc = "while"
    /\ chunks # <<>>
    /\ oversized(Head(chunks), min_chunk_size)
    /\ merged_chunks' = finalize(merged_chunks, Head(chunks))
    /\ chunks' = Tail(chunks)
    /\ iterations' = iterations + 1
    /\ UNCHANGED <<markdown_text, segments, max_chunk_size, min_chunk_size,
                   small_chunks,
                   result, pc>>
    /\ UNCHANGED run_vars

\* loop body: the popped chunk is short and is folded into its successor
FoldForward ==
    /\ pc = "while"
    /\ chunks # <<>>
    /\ ~oversized(Head(chunks), min_chunk_size)
    /\ Tail(chunks) # <<>>
    /\ chunks' = fold_forward(Head(chunks), Tail(chunks))
    /\ iterations' = iterations + 1
    /\ UNCHANGED <<markdown_text, segments, max_chunk_size, min_chunk_size,
                   small_chunks,
                   merged_chunks, result, pc>>
    /\ UNCHANGED run_vars

\* loop body: the popped chunk is short and the last one; it is appended to
\* the last finalized chunk
TailAppend ==
    /\ pc = "while"
    /\ chunks # <<>>
    /\ ~oversized(Head(chunks), min_chunk_size)
    /\ Tail(chunks) = <<>>
    /\ merged_chunks # <<>>
    /\ merged_chunks' = tail_append(merged_chunks, Head(chunks))
    /\ chunks' = Tail(chunks)
    /\ iterations' = iterations + 1
    /\ UNCHANGED <<markdown_text, segments, max_chunk_size, min_chunk_size,
                   small_chunks,
                   result, pc>>
    /\ UNCHANGED run_vars

\* loop body: the popped chunk is short and the last one, and nothing is
\* finalized: merged_chunks[-1] raises IndexError
TailRaise ==
    /\ pc = "while"
    /\ chunks # <<>>
    /\ ~oversized(Head(chunks), min_chunk_size)
    /\ Tail(chunks) = <<>>
    /\ merged_chunks = <<>>
    /\ chunks' = Tail(chunks)
    /\ pc' = "raised"
    /\ UNCHANGED <<markdown_text, segments, max_chunk_size, min_chunk_size,
                   small_chunks,
                   merged_chunks, result, iterations>>
    /\ UNCHANGED run_vars

\* the queue is empty: return merged_chunks
MergeReturn ==
    /\ pc = "while"
    /\ chunks = <<>>
    /\ result' = merged_chunks
    /\ pc' = "done"
    /\ UNCHANGED <<markdown_text, segments, max_chunk_size, min_chunk_size,
                   small_chunks,
                   chunks, merged_chunks, iterations>>
    /\ UNCHANGED run_vars

Next ==
    \/ ShortCircuit
    \/ HeadingSplit
    \/ MergeTrivial
    \/ MergeStart
    \/ Finalize
    \/ FoldForward
    \/ TailAppend
    \/ TailRaise
    \/ MergeReturn

Spec == Init /\ [][Next]_vars

----------------------------------------------------------------------------
\* The merge pass on its own: _merge_small_chunks(small_chunks) called with
\* any list of chunks

MergeAlphabet == {"a", NL}

\* the chunks split_markdown hands over are trimmed and not empty
ChunkPool ==
    {c \in UNION {[1..k -> MergeAlphabet] : k \in 1..MaxChunkLen} : strip(c) = c}

InitMerge ==
    /\ markdown_text = <<>>
    /\ max_chunk_size = 0
    /\ min_chunk_size \in 0..MaxMin
    /\ segments = <<>>
    /\ small_chunks \in UNION {[1..n -> ChunkPool] : n \in 0..MaxChunks}
    /\ chunks = <<>>
    /\ merged_chunks = <<>>
    /\ result = <<>>
    /\ iterations = 0
    /\ pc = "merge_small_chunks"
    /\ RunIdle

NextMerge ==
    \/ MergeTrivial
    \/ MergeStart
    \/ Finalize
    \/ FoldForward
    \/ TailAppend
    \/ TailRaise
    \/ MergeReturn

SpecMerge == InitMerge /\ [][NextMerge]_vars

----------------------------------------------------------------------------
\* The entry points (main of fix_markdown.py and of translate_markdown.py) and
\* the driver (fix_text / translate_text)

Entries == {"fix_markdown", "translate_markdown"}
Keys == {"None", "sk"}
Paths == {"-", "in.md", "missing.md"}
Delays == {-1, 0, 1}

\* Path(path).exists()
FileExists(p) == p = "in.md"

\* the lines input documents of a run are made of
Lines == {<<HASH, SP, "a", NL>>, <<"a", NL>>, <<NL>>}
RunDocs == {concat(ls) : ls \in UNION {[1..n -> Lines] : n \in 0..MaxLines}}
RunMaxSizes == {2, 8}
RunMinSizes == {2, 6}

\* what client.chat.completions.create does for one chunk: it raises, or it
\* returns a message whose content is None or a string
Outcomes ==
    {[kind |-> "raise", content |-> <<>>],
     [kind |-> "none", content |-> <<>>],
     [kind |-> "content", content |-> <<SP, "t", NL>>],
     [kind |-> "content", content |-> <<"u">>]}

\* self.api_key = api_key or os.environ.get("OPENAI_API_KEY")
credential(arg, env) == IF arg # "None" THEN arg ELSE env

\* variant: a failed call yields an empty text
translate_chunk_empty_on_failure(chunk, o) ==
    IF o.kind = "content" THEN strip(o.content) ELSE <<>>

\* translate_chunk / fix_chunk: the stripped content; the original chunk when
\* the call raises or when content.strip() raises inside the try block
translate_chunk(chunk, o) ==
    IF o.kind = "content" THEN strip(o.content) ELSE chunk

\* variant: the driver also pauses after the last chunk
pause_due_after_each(i, n, d) == i <= n - 1 /\ d > 0

\* if i < len(chunks) - 1 and delay > 0   (i counted from 0)
pause_due(i, n, d) == i < n - 1 /\ d > 0

\* main of fix_markdown.py reads the standard input before anything else
stdin_first(e, p) == e = "fix_markdown" /\ p = "-"

InitRun ==
    /\ markdown_text = <<>>
    /\ max_chunk_size \in RunMaxSizes
    /\ min_chunk_size \in RunMinSizes
    /\ segments = <<>>
    /\ small_chunks = <<>>
    /\ chunks = <<>>
    /\ merged_chunks = <<>>
    /\ result = <<>>
    /\ iterations = 0
    /\ pc = "idle"
    /\ entry \in Entries
    /\ api_key \in Keys
    /\ env_key \in Keys
    /\ path \in Paths
    /\ delay \in Delays
    /\ doc \in RunDocs
    /\ src_text = <<>>
    /\ run_chunks = <<>>
    /\ outcomes = <<>>
    /\ out_chunks = <<>>
    /\ events = <<>>
    /\ error = "none"
    /\ output = <<>>
    /\ rpc = "main"

\* fix_markdown.main: src_text = sys.stdin.read(), before the fixer is built
FixReadStdin ==
    /\ rpc = "main"
    /\ stdin_first(entry, path)
    /\ src_text' = doc
    /\ events' = Append(events, [op |-> "read_stdin", i |-> 0])
    /\ rpc' = "construct"
    /\ UNCHANGED <<entry, api_key, env_key, path, delay, doc, run_chunks,
                   outcomes, out_chunks, error, output>>
    /\ UNCHANGED chunker_vars

ConstructEnabled ==
    \/ rpc = "construct"
    \/ rpc = "main" /\ ~stdin_first(entry, path)

\* MarkdownFixer(...) / MarkdownTranslator(...) with a credential
ConstructOk ==
    /\ ConstructEnabled
    /\ credential(api_key, env_key) # "None"
    /\ events' = Append(events, [op |-> "construct", i |-> 0])
    /\ rpc' = IF rpc = "construct" THEN "text" ELSE "constructed"
    /\ UNCHANGED <<entry, api_key, env_key, path, delay, doc, src_text,
                   run_chunks, outcomes, out_chunks, error, output>>
    /\ UNCHANGED chunker_vars

\* MarkdownFixer(...) / MarkdownTranslator(...) without one: ValueError
ConstructFail ==
    /\ ConstructEnabled
    /\ credential(api_key, env_key) = "None"
    /\ error' = "ValueError"
    /\ rpc' = "error"
    /\ UNCHANGED <<entry, api_key, env_key, path, delay, doc, src_text,
                   run_chunks, outcomes, out_chunks, events, output>>
    /\ UNCHANGED chunker_vars

\* translate_markdown.main: src = sys.stdin.read(), after the translator is built
TranslateReadStdin ==
    /\ rpc = "constructed"
    /\ path = "-"
    /\ src_text' = doc
    /\ events' = Append(events, [op |-> "read_stdin", i |-> 0])
    /\ rpc' = "text"
    /\ UNCHANGED <<entry, api_key, env_key, path, delay, doc, run_chunks,
                   outcomes, out_chunks, error, output>>
    /\ UNCHANGED chunker_vars

\* fix_file / translate_file: the file exists and is read
ReadFile ==
    /\ rpc = "constructed"
    /\ path # "-"
    /\ FileExists(path)
    /\ src_text' = doc
    /\ events' = Append(events, [op |-> "read_file", i |-> 0])
    /\ rpc' = "text"
    /\ UNCHANGED <<entry, api_key, env_key, path, delay, doc, run_chunks,
                   outcomes, out_chunks, error, output>>
    /\ UNCHANGED chunker_vars

\* fix_file / translate_file: FileNotFoundError
FileMissing ==
    /\ rpc = "constructed"
    /\ path # "-"
    /\ ~FileExists(path)
    /\ error' = "FileNotFoundError"
    /\ rpc' = "error"
    /\ UNCHANGED <<entry, api_key, env_key, path, delay, doc, src_text,
                   run_chunks, outcomes, out_chunks, events, output>>
    /\ UNCHANGED chunker_vars

\* fix_text / translate_text: chunks = self.chunker.split_markdown(text)
Chunking ==
    /\ rpc = "text"
    /\ LET r == split_markdown(src_text, max_chunk_size, min_chunk_size)
       IN  /\ ~r.raised
           /\ run_chunks' = r.chunks
           /\ rpc' = IF r.chunks = <<>> THEN "join" ELSE "call"
    /\ UNCHANGED <<entry, api_key, env_key, path, delay, doc, src_text,
                   outcomes, out_chunks, events, error, output>>
    /\ UNCHANGED chunker_vars

\* fix_text / translate_text: split_markdown raises IndexError
ChunkingRaises ==
    /\ rpc = "text"
    /\ split_markdown(src_text, max_chunk_size, min_chunk_size).raised
    /\ error' = "IndexError"
    /\ rpc' = "error"
    /\ UNCHANGED <<entry, api_key, env_key, path, delay, doc, src_text,
                   run_chunks, outcomes, out_chunks, events, output>>
    /\ UNCHANGED chunker_vars

\* loop body: out_chunks.append(self.translate_chunk(c, i, len(chunks)))
TransformChunk ==
    /\ rpc = "call"
    /\ \E o \in Outcomes :
          LET i == Len(out_chunks)
              n == Len(run_chunks)
          IN  /\ outcomes' = Append(outcomes, o)
              /\ out_chunks' =
                    Append(out_chunks, translate_chunk(run_chunks[i + 1], o))
              /\ events' = Append(events, [op |-> "call", i |-> i])
              /\ rpc' = IF pause_due(i, n, delay) THEN "sleep"
                        ELSE IF i + 1 < n THEN "call" ELSE "join"
    /\ UNCHANGED <<entry, api_key, env_key, path, delay, doc, src_text,
                   run_chunks, error, output>>
    /\ UNCHANGED chunker_vars

\* loop body: time.sleep(delay)
Sleep ==
    /\ rpc = "sleep"
    /\ events' = Append(events, [op |-> "sleep", i |-> Len(out_chunks) - 1])
    /\ rpc' = IF Len(out_chunks) < Len(run_chunks) THEN "call" ELSE "join"
    /\ UNCHANGED <<entry, api_key, env_key, path, delay, doc, src_text,
                   run_chunks, outcomes, out_chunks, error, output>>
    /\ UNCHANGED chunker_vars

\* "\n\n".join(out_chunks), returned to main and written out
Assemble ==
    /\ rpc = "join"
    /\ output' = join(SEP, out_chunks)
    /\ events' = Append(events, [op |-> "write", i |-> 0])
    /\ rpc' = "done"
    /\ UNCHANGED <<entry, api_key, env_key, path, delay, doc, src_text,
                   run_chunks, outcomes, out_chunks, error>>
    /\ UNCHANGED chunker_vars

NextRun ==
    \/ FixReadStdin
    \/ ConstructOk
    \/ ConstructFail
    \/ TranslateReadStdin
    \/ ReadFile
    \/ FileMissing
    \/ Chunking
    \/ ChunkingRaises
    \/ TransformChunk
    \/ Sleep
    \/ Assemble

SpecRun == InitRun /\ [][NextRun]_vars

----------------------------------------------------------------------------
\* Properties of the chunker (specification Spec)

\* the characters of s that are not whitespace, in order
RECURSIVE NonWs(_)
NonWs(s) ==
    IF s = <<>> THEN <<>>
    ELSE IF IsSpace(Head(s)) THEN NonWs(Tail(s))
         ELSE <<Head(s)>> \o NonWs(Tail(s))

\* split_markdown went through the heading split
WentThroughSplit == ~(Len(markdown_text) <= max_chunk_size)

\* C1: a text no longer than max_chunk_size (the empty text and a text of
\* exactly max_chunk_size characters included) is returned as the only chunk,
\* untrimmed and unmerged, whatever min_chunk_size is.
C1_ShortCircuit ==
    (pc = "done" /\ Len(markdown_text) <= max_chunk_size)
        => result = <<markdown_text>>

\* a text of exactly max_chunk_size characters that begins with whitespace
\* has been returned
C1_Witness ==
    /\ pc = "done"
    /\ Len(markdown_text) = max_chunk_size
    /\ IsSpace(markdown_text[1])
    /\ min_chunk_size >= Len(markdown_text)

\* C2: whenever split_markdown returns, the chunks concatenated in order and
\* stripped of all whitespace are the input stripped of all whitespace.
C2_ContentPreserved ==
    pc = "done" => NonWs(concat(result)) = NonWs(markdown_text)

\* a text with two different non-whitespace characters was split at its
\* headings and some of its segments were merged
C2_Witness ==
    /\ pc = "done"
    /\ WentThroughSplit
    /\ Len(small_chunks) >= 2
    /\ Len(result) < Len(small_chunks)
    /\ \E k \in 1..Len(markdown_text) : markdown_text[k] = "a"

\* C3: with positive thresholds every returned chunk is at most
\* max_chunk_size characters long.
C3_MaxCeiling ==
    (pc = "done" /\ max_chunk_size > 0 /\ min_chunk_size > 0)
        => \A k \in 1..Len(result) : Len(result[k]) <= max_chunk_size

\* C4: in a result of two or more chunks every chunk but the last is longer
\* than min_chunk_size.
C4_MinimumSize ==
    (pc = "done" /\ Len(result) >= 2)
        => \A k \in 1..(Len(result) - 1) : Len(result[k]) > min_chunk_size

\* two or more chunks were returned under a positive min_chunk_size
C4_Witness ==
    /\ pc = "done"
    /\ Len(result) >= 2
    /\ min_chunk_size >= 1

\* C5: with 0 < min_chunk_size < max_chunk_size split_markdown never raises.
C5_NeverRaises ==
    (0 < min_chunk_size /\ min_chunk_size < max_chunk_size) => pc # "raised"

----------------------------------------------------------------------------
\* Properties of the merge pass (specification SpecMerge)

\* every accumulated fold of the segments stays at or under the threshold
AllFoldsUndersized(segs, min) ==
    \A k \in 1..Len(segs) : Len(join(SEP, SubSeq(segs, 1, k))) <= min

\* C6: two or more segments that stay undersized however they are folded are
\* returned as one chunk, the segments joined in order by "\n\n".
C6_UndersizedFoldToOne ==
    (/\ pc \in {"done", "raised"}
     /\ Len(small_chunks) >= 2
     /\ AllFoldsUndersized(small_chunks, min_chunk_size))
        => (pc = "done" /\ result = <<join(SEP, small_chunks)>>)

\* C10: at every iteration of the loop the finalized chunks followed by the
\* queue, joined by "\n\n", are the input chunks joined by "\n\n"; so is the
\* returned list.
C10_MergePreservesJoin ==
    /\ pc = "while" =>
          join(SEP, merged_chunks \o chunks) = join(SEP, small_chunks)
    /\ pc = "done" => join(SEP, result) = join(SEP, small_chunks)

\* three chunks went through the loop, with a forward fold and a tail append
C10_Witness ==
    /\ pc = "done"
    /\ Len(small_chunks) = 3
    /\ Len(result) = 1
    /\ iterations = 3
    /\ \E k \in 1..3 : Len(small_chunks[k]) > min_chunk_size

----------------------------------------------------------------------------
\* Properties of a run (specification SpecRun)

\* the text chunk k ends up as, given what the external call did
Expected(k) ==
    IF outcomes[k].kind = "content"
    THEN strip(outcomes[k].content)
    ELSE run_chunks[k]

\* C7: whichever transform calls fail, the run goes on to the end and the
\* output is r1 + "\n\n" + ... + "\n\n" + rn, where rk is the original chunk
\* when call k failed and the stripped response otherwise; no failure is
\* re-raised, stops later chunks or changes another chunk's text.
C7_FaultTolerance ==
    /\ Len(outcomes) = Len(out_chunks)
    /\ \A k \in 1..Len(out_chunks) : out_chunks[k] = Expected(k)
    /\ Len(outcomes) > 0 => error = "none"
    /\ rpc \in {"call", "sleep", "join"} =>
          ENABLED (TransformChunk \/ Sleep \/ Assemble)
    /\ rpc = "done" =>
          /\ Len(out_chunks) = Len(run_chunks)
          /\ output = join(SEP, [k \in 1..Len(run_chunks) |-> Expected(k)])

\* a run of three chunks ended after the second call raised and the others
\* succeeded
C7_Witness ==
    /\ rpc = "done"
    /\ Len(run_chunks) = 3
    /\ outcomes[1].kind = "content"
    /\ outcomes[2].kind = "raise"
    /\ outcomes[3].kind = "content"

\* C8: without a credential the run fails before the input file or the
\* standard input is read and before any transform call.
C8_ConfigErrorBeforeInput ==
    error = "ValueError" =>
        \A k \in 1..Len(events) :
            events[k].op \notin {"read_stdin", "read_file", "call"}

\* C9: with delay > 0 the driver pauses after the call of chunk i exactly when
\* chunk i is not the last one, before the call of chunk i+1: n-1 pauses in a
\* run of n chunks; with delay <= 0 it never pauses; failed calls make no
\* difference.
C9_PauseBetweenCalls ==
    LET n == Len(run_chunks)
        m == Len(events)
    IN  /\ \A k \in 1..m :
              events[k].op = "sleep" =>
                  /\ delay > 0
                  /\ k > 1
                  /\ events[k - 1].op = "call"
                  /\ events[k - 1].i < n - 1
                  /\ k < m => /\ events[k + 1].op = "call"
                              /\ events[k + 1].i = events[k - 1].i + 1
        /\ \A k \in 1..m :
              (events[k].op = "call" /\ events[k].i < n - 1 /\ delay > 0) =>
                  IF k < m THEN events[k + 1].op = "sleep" ELSE rpc = "sleep"
        /\ rpc = "done" =>
              /\ Cardinality({k \in 1..m : events[k].op = "call"}) = n
              /\ Cardinality({k \in 1..m : events[k].op = "sleep"}) =
                    IF delay > 0 /\ n >= 1 THEN n - 1 ELSE 0

\* a run of three chunks with a positive delay ended, one call having failed
C9_Witness ==
    /\ rpc = "done"
    /\ Len(run_chunks) = 3
    /\ delay > 0
    /\ \E k \in 1..3 : outcomes[k].kind = "raise"
    /\ Cardinality({k \in 1..Len(events) : events[k].op = "sleep"}) = 2

----------------------------------------------------------------------------
\* The tail step of the merge pass (specification SpecMerge)

\* the chunk about to be taken is the last of the queue, is not longer than
\* min_chunk_size, and something is finalized already
TailCase ==
    /\ pc = "while"
    /\ Len(chunks) = 1
    /\ Len(chunks[1]) <= min_chunk_size
    /\ merged_chunks # <<>>

\* C11: a last remaining chunk of length <= min_chunk_size is appended with
\* "\n\n" onto the last finalized chunk, the number of finalized chunks and
\* every earlier finalized chunk staying as they are; so two sections, the
\* first longer than min_chunk_size and the second not, give the single chunk
\* section1 + "\n\n" + section2.
C11_TailStep ==
    [][/\ TailCase =>
            /\ Len(merged_chunks') = Len(merged_chunks)
            /\ \A k \in 1..(Len(merged_chunks) - 1) :
                  merged_chunks'[k] = merged_chunks[k]
            /\ merged_chunks'[Len(merged_chunks)] =
                  merged_chunks[Len(merged_chunks)] \o SEP \o chunks[1]
            /\ chunks' = <<>>
       /\ (/\ pc' = "done"
           /\ Len(small_chunks') = 2
           /\ Len(small_chunks'[1]) > min_chunk_size'
           /\ Len(small_chunks'[2]) <= min_chunk_size') =>
              result' = <<small_chunks'[1] \o SEP \o small_chunks'[2]>>
      ]_vars

\* two sections, the first long enough and the second not, were merged and
\* returned
C11_Witness ==
    /\ pc = "done"
    /\ Len(small_chunks) = 2
    /\ Len(small_chunks[1]) > min_chunk_size
    /\ Len(small_chunks[2]) <= min_chunk_size
    /\ iterations = 2

----------------------------------------------------------------------------
\* The heading split on longer texts: split_markdown called on texts long
\* enough to hold a heading of seven '#'

SplitMaxSizes == {5}
SplitMinSizes == {1, 4}

InitSplit ==
    /\ markdown_text \in Texts(MaxSplitLen)
    /\ segments = <<>>
    /\ max_chunk_size \in SplitMaxSizes
    /\ min_chunk_size \in SplitMinSizes
    /\ small_chunks = <<>>
    /\ chunks = <<>>
    /\ merged_chunks = <<>>
    /\ result = <<>>
    /\ iterations = 0
    /\ pc = "split_markdown"
    /\ RunIdle

SpecSplit == InitSplit /\ [][Next]_vars

\* the number of '#' in a row from position i of s
RECURSIVE HashRun(_, _)
HashRun(s, i) ==
    IF i <= Len(s) /\ s[i] = HASH THEN 1 + HashRun(s, i + 1) ELSE 0

\* position i of s starts a line that begins with 1 to 6 '#' and a space
IsHeadingLine(s, i) ==
    /\ i = 1 \/ s[i - 1] = NL
    /\ HashRun(s, i) >= 1
    /\ HashRun(s, i) <= 6
    /\ i + HashRun(s, i) <= Len(s)
    /\ s[i + HashRun(s, i)] = SP

\* the position in the text at which segment k starts
RECURSIVE SegStart(_, _)
SegStart(segs, k) ==
    IF k = 1 THEN 1 ELSE SegStart(segs, k - 1) + Len(segs[k - 1])

\* C12: for a text longer than max_chunk_size the untrimmed segments
\* concatenate to the text; the segments after the first start at exactly the
\* positions that begin a line of 1 to 6 '#' and a space (not 7 or more '#',
\* not '#' without a space, not '#' inside a line); each of them begins with
\* its heading line, and no heading line is dropped or repeated.
C12_LookaheadSplit ==
    (pc # "split_markdown" /\ Len(markdown_text) > max_chunk_size) =>
        LET H == {i \in 1..Len(markdown_text) : IsHeadingLine(markdown_text, i)}
        IN  /\ concat(segments) = markdown_text
            /\ {SegStart(segments, k) : k \in 2..Len(segments)} = H
            /\ Len(segments) = Cardinality(H) + 1
            /\ \A k \in 2..Len(segments) : IsHeadingLine(segments[k], 1)

\* a text with leading text, two headings and a '#' inside a line was split
C12_Witness ==
    /\ pc # "split_markdown"
    /\ Len(segments) = 3
    /\ segments[1] # <<>>
    /\ \E i \in 2..Len(markdown_text) :
          markdown_text[i] = HASH /\ markdown_text[i - 1] = SP

----------------------------------------------------------------------------
\* Termination of the merge pass

\* the interpreter keeps executing the loop: a step that can be taken is taken
SpecMergeFair == InitMerge /\ [][NextMerge]_vars /\ WF_vars(NextMerge)

\* C13: the merge pass ends, after exactly as many iterations as it was given
\* chunks: every iteration takes one chunk off the queue and adds none, so the
\* queue is one shorter after each iteration until it is empty (for two or
\* more chunks, when no error is raised).
C13_MergeTerminates ==
    /\ [](pc = "while" => Len(chunks) = Len(small_chunks) - iterations)
    /\ []((pc = "done" /\ Len(small_chunks) >= 2) =>
             iterations = Len(small_chunks))
    /\ <>(pc \in {"done", "raised"})

\* a pass over three chunks with a forward fold returned two chunks
C13_Witness ==
    /\ pc = "done"
    /\ Len(small_chunks) = 3
    /\ iterations = 3
    /\ Len(result) = 2

----------------------------------------------------------------------------
\* Undersized chunks in the result of split_markdown (specification Spec)

\* C14: when _merge_small_chunks is given two or more chunks and returns,
\* every returned chunk, the last included, is longer than min_chunk_size; a
\* chunk of split_markdown's result is undersized only after the short-circuit
\* or when the heading split left a single segment.
C14_NoUndersizedAfterMerge ==
    pc = "done" =>
        /\ Len(small_chunks) >= 2 =>
              \A k \in 1..Len(result) : Len(result[k]) > min_chunk_size
        /\ (\E k \in 1..Len(result) : Len(result[k]) <= min_chunk_size) =>
              \/ Len(markdown_text) <= max_chunk_size
              \/ Len(small_chunks) = 1

\* the last of several segments was undersized and the pass returned one chunk
C14_Witness ==
    /\ pc = "done"
    /\ Len(small_chunks) >= 2
    /\ Len(small_chunks[Len(small_chunks)]) <= min_chunk_size
    /\ Len(result) = 1
    /\ min_chunk_size >= 1

====
